---- MODULE Spec2Model ----
(***************************************************************************)
(* The job lifecycle of src/webapp2/app.py: YouTubeDownloader's job store  *)
(* (active_downloads), admission queue (download_queue), the single        *)
(* background worker thread (_download_worker / _process_download), the    *)
(* progress hook the backend calls, cancel_download and the history        *)
(* ledger.  Threads interleave between the statements that read or write   *)
(* shared state (CPython switches threads between bytecodes), so every     *)
(* such statement is a step of its own.                                    *)
(*                                                                         *)
(* Job records are Python dicts: objects with identity.  `records` is the  *)
(* heap of the dicts start_download has created, in creation order;        *)
(* active_downloads maps a download id to the index of the dict it names,  *)
(* and the worker and cancel_download hold such an index in their local    *)
(* download_info.                                                          *)
(***************************************************************************)
EXTENDS Integers, Sequences, FiniteSets, TLC

VARIABLES
    clock,             \* the value time.time() / datetime.now() returns
    records,           \* heap of job dicts, in creation order
    active_downloads,  \* self.active_downloads: download id -> index in records
    download_queue,    \* self.download_queue: FIFO of download ids
    download_history,  \* self.download_history: list of dict copies
    permits,           \* value of self.download_semaphore
    storage,           \* temp_dir/<download id>/: id -> sizes of the files in it
    spc, sid,          \* start_download in flight: position, download_id
    wpc, wid, winfo,   \* worker thread: position, download_id, download_info
    wexc, wfile,       \* worker thread: caught exception text, file_size local
    cpc, cinfo, csaw,  \* cancel_download in flight: position, download_info,
                       \*   status read by the test on line 365
    cret,              \* history: <<value returned, download_id>> of the last
                       \*   cancel_download call that returned, <<>> while a
                       \*   call is in flight
    invoked,           \* history: per dict, number of ydl.download calls made
    admitted,          \* history: ids in the order line 288 marked them running
    swept,             \* history: <<cutoff_time, parity>> of the last
                       \*   cleanup_old_files call, <<>> before the first
    fret,              \* history: <<HTTP status, download_id, parity>> of the
                       \*   last download_file response, <<>> before the first
    terminalOrder,     \* history: the dicts in the order in which their
                       \*   status first became completed, error or cancelled
    inflight,          \* history: the ids of the _process_download calls that
                       \*   have begun and not returned
    request_counts,    \* request_counts[client_ip] of rate_limit, one client
    rpc, rnow,         \* per request thread: position in decorated_function
                       \*   and its local now
    served,            \* history: the values of now of the requests that
                       \*   reached the wrapped handler, in that order
    rstarted,          \* history: the number of requests that have arrived
    cancelAck          \* history: per dict, the phase in which a cancel_download
                       \*   call for it returned True

vars == <<clock, records, active_downloads, download_queue, download_history,
          permits, storage, spc, sid, wpc,
          wid, winfo, wexc, wfile, cpc,
          cinfo, csaw, cret, invoked, admitted,
          cancelAck, swept, fret, terminalOrder, inflight,
          request_counts, rpc, rnow, served, rstarted>>

----------------------------------------------------------------------------
(* Bounds of the model                                                     *)

\* start_download calls made under Spec
MaxJobs == 2
\* start_download calls made under SpecPool
PoolJobs == 6
\* threads of the web server that handle requests of one client at a time
MaxThreads == 2
\* requests the client sends under SpecRate
MaxRequests == 11
\* latest reading of the clock under SpecRate, in steps of SecondsPerTick
MaxRateClock == 2
\* seconds between two readings of the clock under SpecRate
SecondsPerTick == 30
\* start_download calls made under SpecFile
FileJobs == 1
\* start_download calls made under SpecSweep
SweepJobs == 2
\* latest reading of the clock under SpecSweep
MaxClock == 1
\* largest max_age_hours passed to cleanup_old_files
MaxAge == 0
\* start_download calls made under SpecDrain
DrainJobs == 1
\* start_download calls made under SpecLive
LiveJobs == 3
\* start_download calls made under SpecOrder
OrderJobs == 2
\* start_download calls made under SpecCancel
CancelJobs == 1
\* largest byte count a progress callback reports
MaxBytes == 1
\* largest size of a file the backend leaves behind
MaxSize == 1

----------------------------------------------------------------------------
(* Program constants and values                                            *)

\* app.py:51
max_concurrent_downloads == 5

\* Python None, for the string-valued fields error and file_path
None == "None"

\* a dict without the key 'end_time' (start_download does not set it)
NoTime == -1

\* the URLs submitted under Spec, each the number n of "https://youtu.be/<n>"
URLs == {1}

\* the URL of the k-th start_download call under SpecPool
PoolURL(k) == k

\* urlparse(url).netloc of URL number n, cut into the pieces the test of
\* _validate_url can tell apart
Netloc(url) ==
    CASE url = 1 -> <<"www.", "youtube.com">>
      [] url = 2 -> <<"youtu.be">>
      [] url = 3 -> <<"example.com">>
      [] url = 4 -> <<"m.", "YouTube.com">>
      [] url = 5 -> <<"youtube.com", ".example.org">>
      [] OTHER -> <<"vimeo.com">>

\* str.lower() on the pieces
Lower(piece) == IF piece = "YouTube.com" THEN "youtube.com" ELSE piece

\* lines 163-169: any(domain in parsed.netloc.lower() for domain in
\* ['youtube.com', 'youtu.be']), a substring test
_validate_url(url) ==
    \E domain \in {"youtube.com", "youtu.be"} :
        \E k \in DOMAIN Netloc(url) : Lower(Netloc(url)[k]) = domain

\* the texts of the exceptions _process_download can catch
NoFileMsg == "No file was downloaded"
EmptyFileMsg == "Downloaded file is empty"
BackendMsgs == {"ERROR: Video unavailable"}

\* hashlib.md5(f"{url}_{time.time()}").hexdigest()[:12]: a function of the URL
\* and of the clock reading alone, taken to be injective on the model's few
\* (url, time) pairs
DownloadId(url, t) == <<url, t>>

\* the dict built on lines 248-261
NewRecord(url, t) ==
    [id |-> DownloadId(url, t), url |-> url, status |-> "queued",
     progress |-> 0, start_time |-> t, error |-> None, file_path |-> None,
     file_size |-> 0, end_time |-> NoTime]

Min(a, b) == IF a <= b THEN a ELSE b

Range(s) == {s[i] : i \in DOMAIN s}

RequestThreads == 1 .. MaxThreads

\* line 399 and line 400
RATE_LIMIT == 10
RATE_WINDOW == 60

\* the sequence s without its first element equal to x
RECURSIVE Without(_, _)
Without(s, x) ==
    IF s = <<>> THEN <<>>
    ELSE IF Head(s) = x THEN Tail(s)
    ELSE <<Head(s)>> \o Without(Tail(s), x)

\* the order of first arrivals, after dict i has arrived
Reached(order, i) == IF i \in Range(order) THEN order ELSE Append(order, i)

----------------------------------------------------------------------------
Init ==
    /\ clock = 0
    /\ records = <<>>
    /\ active_downloads = <<>>
    /\ download_queue = <<>>
    /\ download_history = <<>>
    /\ permits = max_concurrent_downloads
    /\ storage = <<>>
    /\ spc = "idle" /\ sid = <<>>
    /\ wpc = "get" /\ wid = <<>> /\ winfo = 0
    /\ wexc = None /\ wfile = 0
    /\ cpc = "idle" /\ cinfo = 0 /\ csaw = None /\ cret = <<>>
    /\ invoked = <<>>
    /\ admitted = <<>>
    /\ cancelAck = <<>>
    /\ swept = <<>>
    /\ fret = <<>>
    /\ terminalOrder = <<>>
    /\ inflight = <<>>
    /\ request_counts = <<>>
    /\ rpc = [t \in RequestThreads |-> "idle"]
    /\ rnow = [t \in RequestThreads |-> 0]
    /\ served = <<>>
    /\ rstarted = 0

submitterVars == <<spc, sid>>
workerVars == <<wpc, wid, winfo, wexc, wfile>>
cancelVars == <<cpc, cinfo, csaw, cret>>
limiterVars == <<request_counts, rpc, rnow, served, rstarted>>
downloaderVars ==
    <<records, active_downloads, download_queue, download_history, permits,
      storage, submitterVars, workerVars, cancelVars, invoked, admitted,
      cancelAck, swept, fret, terminalOrder, inflight>>

----------------------------------------------------------------------------
(* start_download (lines 242-267), one call in flight at a time            *)

\* a start_download that has not stored the dict when it goes on to put the id
\* on the queue
StartInsertNotStored(url, dt, maxJobs) ==
    /\ spc = "idle"
    /\ Len(records) < maxJobs
    /\ clock' = clock + dt
    /\ records' = Append(records, NewRecord(url, clock'))
    /\ spc' = "put"
    /\ sid' = DownloadId(url, clock')
    /\ invoked' = Append(invoked, 0)
    /\ cancelAck' = Append(cancelAck, "none")
    /\ UNCHANGED <<active_downloads, download_queue, download_history,
                   permits, storage, workerVars, cancelVars, admitted, swept,
                   fret, terminalOrder, inflight, limiterVars>>

\* lines 246-263: the id is computed from the URL and the clock, the dict is
\* built and stored under the id (replacing any dict already stored there).
\* dt is the time that passed since the previous start_download call read the
\* clock: 0 when two calls fall into one granule of time.time().  The
\* datetime.now() readings of the worker and of cancel_download return the
\* clock as it stands.
StartInsert(url, dt, maxJobs) ==
    /\ spc = "idle"
    /\ Len(records) < maxJobs
    /\ clock' = clock + dt
    /\ records' = Append(records, NewRecord(url, clock'))
    /\ active_downloads' =
           (DownloadId(url, clock') :> Len(records')) @@ active_downloads
    /\ spc' = "put"
    /\ sid' = DownloadId(url, clock')
    /\ invoked' = Append(invoked, 0)
    /\ cancelAck' = Append(cancelAck, "none")
    /\ UNCHANGED <<download_queue, download_history, permits, storage,
                   workerVars, cancelVars, admitted, swept, fret,
                   terminalOrder, inflight, limiterVars>>

\* lines 264-267: the id is put on the queue and returned
StartPut ==
    /\ spc = "put"
    /\ download_queue' = Append(download_queue, sid)
    /\ spc' = "idle"
    /\ sid' = <<>>
    /\ UNCHANGED <<clock, records, active_downloads, download_history,
                   permits, storage, workerVars, cancelVars, invoked,
                   admitted, cancelAck, swept, fret, terminalOrder, inflight,
                   limiterVars>>

----------------------------------------------------------------------------
(* _download_worker (lines 269-279): the one worker thread                 *)

\* a worker that takes the newest id instead of the oldest
WorkerGetNewest ==
    /\ wpc = "get"
    /\ download_queue # <<>>
    /\ wid' = download_queue[Len(download_queue)]
    /\ download_queue' = SubSeq(download_queue, 1, Len(download_queue) - 1)
    /\ wpc' = "enter"
    /\ UNCHANGED <<clock, records, active_downloads, download_history,
                   permits, storage, submitterVars, winfo, wexc, wfile,
                   cancelVars, invoked, admitted, cancelAck, swept, fret,
                   terminalOrder, inflight, limiterVars>>

\* a worker that takes the next id while a _process_download call is running
WorkerGetWhileBusy ==
    /\ download_queue # <<>>
    /\ wid' = Head(download_queue)
    /\ download_queue' = Tail(download_queue)
    /\ wpc' = "enter"
    /\ UNCHANGED <<clock, records, active_downloads, download_history,
                   permits, storage, submitterVars, winfo, wexc, wfile,
                   cancelVars, invoked, admitted, cancelAck, swept, fret,
                   terminalOrder, inflight, limiterVars>>

\* line 273: download_id = self.download_queue.get(timeout=1); on an empty
\* queue the call times out and the loop tries again, changing nothing
WorkerGet ==
    /\ wpc = "get"
    /\ download_queue # <<>>
    /\ wid' = Head(download_queue)
    /\ download_queue' = Tail(download_queue)
    /\ wpc' = "enter"
    /\ UNCHANGED <<clock, records, active_downloads, download_history,
                   permits, storage, submitterVars, winfo, wexc, wfile,
                   cancelVars, invoked, admitted, cancelAck, swept, fret,
                   terminalOrder, inflight, limiterVars>>

\* a worker that finds no dict for any id and returns at once
WorkerEnterSkips ==
    /\ wpc = "enter"
    /\ permits > 0
    /\ winfo' = 0
    /\ permits' = permits
    /\ wpc' = "get"
    /\ wid' = <<>>
    /\ inflight' = inflight
    /\ UNCHANGED <<clock, records, active_downloads, download_queue,
                   download_history, storage, submitterVars, wexc, wfile,
                   cancelVars, invoked, admitted, cancelAck, swept, fret,
                   terminalOrder, limiterVars>>

\* line 274 acquires the semaphore; lines 283-285 look the dict up and return
\* (releasing the semaphore) when there is none
WorkerEnter ==
    /\ wpc = "enter"
    /\ permits > 0
    /\ IF wid \in DOMAIN active_downloads
       THEN /\ winfo' = active_downloads[wid]
            /\ permits' = permits - 1
            /\ wpc' = "status"
            /\ wid' = wid
            /\ inflight' = Append(inflight, wid)
       ELSE /\ winfo' = 0
            /\ permits' = permits
            /\ wpc' = "get"
            /\ wid' = <<>>
            /\ inflight' = inflight
    /\ UNCHANGED <<clock, records, active_downloads, download_queue,
                   download_history, storage, submitterVars, wexc, wfile,
                   cancelVars, invoked, admitted, cancelAck, swept, fret,
                   terminalOrder, limiterVars>>

\* line 288: download_info['status'] = 'downloading'
WorkerSetDownloading ==
    /\ wpc = "status"
    /\ records' = [records EXCEPT ![winfo].status = "downloading"]
    /\ admitted' = Append(admitted, wid)
    /\ wpc' = "progress0"
    /\ UNCHANGED <<clock, active_downloads, download_queue, download_history,
                   permits, storage, submitterVars, wid, winfo, wexc, wfile,
                   cancelVars, invoked, cancelAck, swept, fret, terminalOrder,
                   inflight, limiterVars>>

\* line 289: download_info['progress'] = 0
WorkerResetProgress ==
    /\ wpc = "progress0"
    /\ records' = [records EXCEPT ![winfo].progress = 0]
    /\ wpc' = "call"
    /\ UNCHANGED <<clock, active_downloads, download_queue, download_history,
                   permits, storage, submitterVars, wid, winfo, wexc, wfile,
                   cancelVars, invoked, admitted, cancelAck, swept, fret,
                   terminalOrder, inflight, limiterVars>>

\* lines 304-318: the options are built, the job's directory is made
\* (mkdir(exist_ok=True)) and ydl.download is entered
WorkerCallBackend ==
    /\ wpc = "call"
    /\ storage' = IF wid \in DOMAIN storage THEN storage
                  ELSE (wid :> <<>>) @@ storage
    /\ invoked' = [invoked EXCEPT ![winfo] = @ + 1]
    /\ wpc' = "backend"
    /\ UNCHANGED <<clock, records, active_downloads, download_queue,
                   download_history, permits, submitterVars, wid, winfo, wexc,
                   wfile, cancelVars, admitted, cancelAck, swept, fret,
                   terminalOrder, inflight, limiterVars>>

----------------------------------------------------------------------------
(* The backend call (line 318) and the progress hook (lines 292-301)       *)

\* the dicts yt-dlp passes to a progress hook; a total of 0 stands for a key
\* that is missing, None or 0, which the tests on lines 294 and 297 treat alike
HookEvents ==
    [status : {"downloading", "finished", "error"},
     downloaded_bytes : 0 .. MaxBytes,
     total_bytes : 0 .. MaxBytes,
     total_bytes_estimate : 0 .. MaxBytes]

\* (downloaded / total) * 100, kept in whole percents (rounded down, which
\* commutes with min(., 99) and keeps the order of the values)
Percent(downloaded, total) == (downloaded * 100) \div total

\* the value of download_info['progress'] after progress_hook(d), from progress
progress_hook(d, progress) ==
    IF d.status = "downloading"
    THEN IF d.total_bytes # 0
         THEN Min(Percent(d.downloaded_bytes, d.total_bytes), 99)
         ELSE IF d.total_bytes_estimate # 0
              THEN Min(Percent(d.downloaded_bytes, d.total_bytes_estimate), 99)
              ELSE progress
    ELSE IF d.status = "finished"
         THEN 100
         ELSE progress

\* the backend, inside ydl.download, calls the hook with d
BackendProgress(d) ==
    /\ wpc = "backend"
    /\ records' = [records EXCEPT ![winfo].progress = progress_hook(d, @)]
    /\ UNCHANGED <<clock, active_downloads, download_queue, download_history,
                   permits, storage, submitterVars, workerVars, cancelVars,
                   invoked, admitted, cancelAck, swept, fret, terminalOrder,
                   inflight, limiterVars>>

\* what a returning backend call can leave in the job's directory: nothing
\* new, or one file of some size
BackendOutputs == {<<>>} \cup {<<n>> : n \in 0 .. MaxSize}

\* ydl.download returns normally (line 318)
BackendReturn(out) ==
    /\ wpc = "backend"
    /\ storage' = [storage EXCEPT ![wid] = IF out = <<>> THEN @ ELSE out]
    /\ wpc' = "find"
    /\ UNCHANGED <<clock, records, active_downloads, download_queue,
                   download_history, permits, submitterVars, wid, winfo, wexc,
                   wfile, cancelVars, invoked, admitted, cancelAck, swept,
                   fret, terminalOrder, inflight, limiterVars>>

\* ydl.download raises (line 318), caught on line 343
BackendRaise(msg) ==
    /\ wpc = "backend"
    /\ wexc' = msg
    /\ wpc' = "e_status"
    /\ UNCHANGED <<clock, records, active_downloads, download_queue,
                   download_history, permits, storage, submitterVars, wid,
                   winfo, wfile, cancelVars, invoked, admitted, cancelAck,
                   swept, fret, terminalOrder, inflight, limiterVars>>

----------------------------------------------------------------------------
(* _process_download after the backend call (lines 320-347)                *)

\* a _process_download without the test of line 328
WorkerFindFileAnySize ==
    /\ wpc = "find"
    /\ IF storage[wid] = <<>>
       THEN wexc' = NoFileMsg /\ wpc' = "e_status" /\ wfile' = wfile
       ELSE wexc' = wexc /\ wpc' = "c_status" /\ wfile' = storage[wid][1]
    /\ UNCHANGED <<clock, records, active_downloads, download_queue,
                   download_history, permits, storage, submitterVars, wid,
                   winfo, cancelVars, invoked, admitted, cancelAck, swept,
                   fret, terminalOrder, inflight, limiterVars>>

\* lines 321-329: the first file of the job's directory and its size; no file
\* or an empty file raises
WorkerFindFile ==
    /\ wpc = "find"
    /\ IF storage[wid] = <<>>
       THEN wexc' = NoFileMsg /\ wpc' = "e_status" /\ wfile' = wfile
       ELSE IF storage[wid][1] = 0
            THEN wexc' = EmptyFileMsg /\ wpc' = "e_status" /\ wfile' = wfile
            ELSE wexc' = wexc /\ wpc' = "c_status" /\ wfile' = storage[wid][1]
    /\ UNCHANGED <<clock, records, active_downloads, download_queue,
                   download_history, permits, storage, submitterVars, wid,
                   winfo, cancelVars, invoked, admitted, cancelAck, swept,
                   fret, terminalOrder, inflight, limiterVars>>

\* the name of the downloaded file inside the job's directory
FileName == "video.mp4"

\* a worker step that writes one field of download_info and moves on
WorkerWrite(at, field, value, next) ==
    /\ wpc = at
    /\ records' = [records EXCEPT ![winfo][field] = value]
    /\ wpc' = next
    /\ terminalOrder' =
           IF field = "status" /\ value \in {"completed", "error", "cancelled"}
           THEN Reached(terminalOrder, winfo)
           ELSE terminalOrder
    /\ UNCHANGED <<clock, active_downloads, download_queue, download_history,
                   permits, storage, submitterVars, wid, winfo, wexc, wfile,
                   cancelVars, invoked, admitted, cancelAck, swept, fret,
                   inflight, limiterVars>>

\* a completion that leaves the status as it is
WorkerCompletedKeepStatus == WorkerWrite("c_status", "status", records[winfo].status, "c_progress")

\* line 332: download_info['status'] = 'completed'
WorkerCompletedStatus == WorkerWrite("c_status", "status", "completed", "c_progress")

\* line 333: download_info['progress'] = 100
WorkerCompletedProgress == WorkerWrite("c_progress", "progress", 100, "c_path")

\* line 334: download_info['file_path'] = str(file_path)
WorkerCompletedPath == WorkerWrite("c_path", "file_path", FileName, "c_size")

\* line 335: download_info['file_size'] = file_size
WorkerCompletedSize == WorkerWrite("c_size", "file_size", wfile, "c_end")

\* line 336: download_info['end_time'] = datetime.now()
WorkerCompletedEnd == WorkerWrite("c_end", "end_time", clock, "c_hist")

\* the worker is back at the head of its loop, the semaphore released (the
\* with statement of line 274 ends)
WorkerLoop ==
    /\ wpc' = "get"
    /\ wid' = <<>>
    /\ winfo' = 0
    /\ wexc' = None
    /\ wfile' = 0
    /\ permits' = permits + 1
    /\ inflight' = Without(inflight, wid)

\* line 339: self.download_history.append(download_info.copy()), then the
\* return to _download_worker
WorkerAppendHistory ==
    /\ wpc = "c_hist"
    /\ download_history' = Append(download_history, records[winfo])
    /\ WorkerLoop
    /\ UNCHANGED <<clock, records, active_downloads, download_queue, storage,
                   submitterVars, cancelVars, invoked, admitted, cancelAck,
                   swept, fret, terminalOrder, limiterVars>>

\* line 344: download_info['status'] = 'error'
WorkerErrorStatus == WorkerWrite("e_status", "status", "error", "e_error")

\* line 345: download_info['error'] = str(e)
WorkerErrorText == WorkerWrite("e_error", "error", wexc, "e_end")

\* an error exit that returns to the loop without releasing the semaphore
WorkerErrorEndKeepsPermit ==
    /\ wpc = "e_end"
    /\ records' = [records EXCEPT ![winfo].end_time = clock]
    /\ wpc' = "get"
    /\ wid' = <<>>
    /\ winfo' = 0
    /\ wexc' = None
    /\ wfile' = 0
    /\ inflight' = Without(inflight, wid)
    /\ UNCHANGED <<clock, active_downloads, download_queue, download_history,
                   permits, storage, submitterVars, cancelVars, invoked,
                   admitted, cancelAck, swept, fret, terminalOrder,
                   limiterVars>>

\* lines 346-347: download_info['end_time'] = datetime.now(), then the return
\* to _download_worker
WorkerErrorEnd ==
    /\ wpc = "e_end"
    /\ records' = [records EXCEPT ![winfo].end_time = clock]
    /\ WorkerLoop
    /\ UNCHANGED <<clock, active_downloads, download_queue, download_history,
                   storage, submitterVars, cancelVars, invoked, admitted,
                   cancelAck, swept, fret, terminalOrder, limiterVars>>

----------------------------------------------------------------------------
(* cleanup_old_files (lines 371-383)                                       *)

\* time passes between two readings of datetime.now()
Tick(maxClock) ==
    /\ clock < maxClock
    /\ clock' = clock + 1
    /\ UNCHANGED <<records, active_downloads, download_queue,
                   download_history, permits, storage, submitterVars,
                   workerVars, cancelVars, invoked, admitted, cancelAck,
                   swept, fret, terminalOrder, inflight, limiterVars>>

\* line 378: os.path.exists, for the file of the directory of download id
PathExists(files, id) == id \in DOMAIN files /\ files[id] # <<>>

\* line 380: os.remove deletes the file, and raises when there is none
os_remove(files, id) ==
    IF PathExists(files, id)
    THEN [files |-> [files EXCEPT ![id] = <<>>], raised |-> FALSE]
    ELSE [files |-> files, raised |-> TRUE]

\* a loop body that calls os.remove without the test of line 378 and outside
\* a try
SweepEntryUnguarded(files, download_info, cutoff_time) ==
    IF /\ download_info.end_time # NoTime
       /\ download_info.end_time < cutoff_time
       /\ download_info.file_path # None
    THEN os_remove(files, download_info.id)
    ELSE [files |-> files, raised |-> FALSE]

\* lines 376-383, the body of the loop: the file of an entry that ended
\* before the cutoff is removed when it exists; an exception of os.remove is
\* logged and goes no further
SweepEntry(files, download_info, cutoff_time) ==
    IF /\ download_info.end_time # NoTime
       /\ download_info.end_time < cutoff_time
       /\ download_info.file_path # None
       /\ PathExists(files, download_info.id)
    THEN [files |-> os_remove(files, download_info.id).files, raised |-> FALSE]
    ELSE [files |-> files, raised |-> FALSE]

\* line 375: the loop over download_history from entry k on; an exception
\* that leaves the body ends the call
RECURSIVE SweepFrom(_, _, _, _)
SweepFrom(files, history, k, cutoff_time) ==
    IF k > Len(history)
    THEN [files |-> files, raised |-> FALSE]
    ELSE LET out == SweepEntry(files, history[k], cutoff_time)
         IN  IF out.raised THEN out
             ELSE SweepFrom(out.files, history, k + 1, cutoff_time)

\* the whole call, with the clock counting hours
cleanup_old_files(max_age_hours) ==
    LET cutoff_time == clock - max_age_hours
    IN  /\ storage' = SweepFrom(storage, download_history, 1, cutoff_time).files
        /\ swept' = <<cutoff_time, IF swept = <<>> THEN 0 ELSE 1 - swept[2]>>
        /\ UNCHANGED <<clock, records, active_downloads, download_queue,
                       download_history, permits, submitterVars, workerVars,
                       cancelVars, invoked, admitted, cancelAck, fret,
                       terminalOrder, inflight, limiterVars>>

----------------------------------------------------------------------------
(* rate_limit (lines 398-418): decorated_function, run by the thread that  *)
(* handles the request; all requests come from one client_ip               *)

\* time.time(), in seconds
time_time == clock * SecondsPerTick

\* lines 408-409: the request times younger than RATE_WINDOW, in list order
RECURSIVE Recent(_, _)
Recent(times, now) ==
    IF times = <<>> THEN <<>>
    ELSE IF now - Head(times) < RATE_WINDOW
         THEN <<Head(times)>> \o Recent(Tail(times), now)
         ELSE Recent(Tail(times), now)

\* lines 404-405: a request arrives and the thread reads the clock
RateArrive(t) ==
    /\ rpc[t] = "idle"
    /\ rstarted < MaxRequests
    /\ rstarted' = rstarted + 1
    /\ rnow' = [rnow EXCEPT ![t] = time_time]
    /\ rpc' = [rpc EXCEPT ![t] = "clean"]
    /\ UNCHANGED <<clock, request_counts, served, downloaderVars>>

\* lines 408-409: the list is replaced by its recent entries
RateClean(t) ==
    /\ rpc[t] = "clean"
    /\ request_counts' = Recent(request_counts, rnow[t])
    /\ rpc' = [rpc EXCEPT ![t] = "check"]
    /\ UNCHANGED <<clock, rnow, served, rstarted, downloaderVars>>

\* lines 412-413: with RATE_LIMIT entries or more in the list the answer is
\* 429 and the request is over
RateCheck(t) ==
    /\ rpc[t] = "check"
    /\ rpc' = [rpc EXCEPT ![t] = IF Len(request_counts) >= RATE_LIMIT
                                 THEN "idle" ELSE "append"]
    /\ UNCHANGED <<clock, request_counts, rnow, served, rstarted,
                   downloaderVars>>

\* lines 415-416: now is appended to the list and the wrapped handler runs
RateAppend(t) ==
    /\ rpc[t] = "append"
    /\ request_counts' = Append(request_counts, rnow[t])
    /\ served' = Append(served, rnow[t])
    /\ rpc' = [rpc EXCEPT ![t] = "idle"]
    /\ UNCHANGED <<clock, rnow, rstarted, downloaderVars>>

----------------------------------------------------------------------------
(* The download_file route (lines 523-545)                                 *)

\* a route without the status test of lines 529-530
download_file_any_status(download_id) ==
    LET known == download_id \in DOMAIN active_downloads
        status == records[active_downloads[download_id]]
        code == IF ~ known THEN 404
                ELSE IF \/ status.file_path = None
                        \/ ~ PathExists(storage, status.id) THEN 404
                ELSE 200
    IN  /\ fret' = <<code, download_id, IF fret = <<>> THEN 0 ELSE 1 - fret[3]>>
        /\ UNCHANGED <<clock, records, active_downloads, download_queue,
                       download_history, permits, storage, submitterVars,
                       workerVars, cancelVars, invoked, admitted, cancelAck,
                       swept, terminalOrder, inflight, limiterVars>>

\* lines 526-545: 404 when get_download_status returns None, 400 when the
\* status is not 'completed', 404 when file_path is None or names no file,
\* otherwise the file is sent (200)
download_file(download_id) ==
    LET known == download_id \in DOMAIN active_downloads
        status == records[active_downloads[download_id]]
        code == IF ~ known THEN 404
                ELSE IF status.status # "completed" THEN 400
                ELSE IF \/ status.file_path = None
                        \/ ~ PathExists(storage, status.id) THEN 404
                ELSE 200
    IN  /\ fret' = <<code, download_id, IF fret = <<>> THEN 0 ELSE 1 - fret[3]>>
        /\ UNCHANGED <<clock, records, active_downloads, download_queue,
                       download_history, permits, storage, submitterVars,
                       workerVars, cancelVars, invoked, admitted, cancelAck,
                       swept, terminalOrder, inflight, limiterVars>>

----------------------------------------------------------------------------
(* cancel_download (lines 361-369), one call in flight at a time           *)

\* an id no start_download call returned
UnknownId == DownloadId(0, 0)

\* a cancel_download without the test of line 365
CancelCheckAnyStatus(id) ==
    /\ cpc = "idle"
    /\ id \in DOMAIN active_downloads
    /\ cinfo' = active_downloads[id]
    /\ csaw' = records[active_downloads[id]].status
    /\ cpc' = "status"
    /\ cret' = <<>>
    /\ UNCHANGED <<clock, records, active_downloads, download_queue,
                   download_history, permits, storage, submitterVars,
                   workerVars, invoked, admitted, cancelAck, swept, fret,
                   terminalOrder, inflight, limiterVars>>

\* lines 363-365: the dict is looked up and its status tested; the call
\* returns False (line 369, nothing changed) unless the test passes
CancelCheck(id) ==
    /\ cpc = "idle"
    /\ id \in DOMAIN active_downloads
    /\ records[active_downloads[id]].status \in {"queued", "downloading"}
    /\ cinfo' = active_downloads[id]
    /\ csaw' = records[active_downloads[id]].status
    /\ cpc' = "status"
    /\ cret' = <<>>
    /\ UNCHANGED <<clock, records, active_downloads, download_queue,
                   download_history, permits, storage, submitterVars,
                   workerVars, invoked, admitted, cancelAck, swept, fret,
                   terminalOrder, inflight, limiterVars>>

\* lines 363-365 and 369: unknown id or status not cancellable, return False
CancelRefuse(id) ==
    /\ cpc = "idle"
    /\ ~ /\ id \in DOMAIN active_downloads
         /\ records[active_downloads[id]].status \in {"queued", "downloading"}
    /\ cret' = <<"False", id>>
    /\ UNCHANGED <<clock, records, active_downloads, download_queue,
                   download_history, permits, storage, submitterVars,
                   workerVars, cpc, cinfo, csaw, invoked, admitted, cancelAck,
                   swept, fret, terminalOrder, inflight, limiterVars>>

\* line 366: download_info['status'] = 'cancelled'
CancelSetStatus ==
    /\ cpc = "status"
    /\ records' = [records EXCEPT ![cinfo].status = "cancelled"]
    /\ cpc' = "end"
    /\ terminalOrder' = Reached(terminalOrder, cinfo)
    /\ UNCHANGED <<clock, active_downloads, download_queue, download_history,
                   permits, storage, submitterVars, workerVars, cinfo, csaw,
                   cret, invoked, admitted, cancelAck, swept, fret, inflight,
                   limiterVars>>

\* the phase of the job in which a cancel_download call returns True:
\* "queued" when the call saw status queued and the worker has not taken the
\* id off the queue, "running" when it saw status downloading and the worker
\* is inside its backend call or on its way into it
CancelPhase(previous) ==
    IF /\ csaw = "queued"
       /\ records[cinfo].id \in Range(download_queue)
       /\ wid # records[cinfo].id
       /\ invoked[cinfo] = 0
    THEN "queued"
    ELSE IF /\ csaw = "downloading"
            /\ winfo = cinfo
            /\ wpc \in {"progress0", "call", "backend"}
         THEN "running"
         ELSE previous

\* lines 367-368: download_info['end_time'] = datetime.now(); return True
CancelSetEnd ==
    /\ cpc = "end"
    /\ records' = [records EXCEPT ![cinfo].end_time = clock]
    /\ cancelAck' = [cancelAck EXCEPT ![cinfo] = CancelPhase(@)]
    /\ cpc' = "idle"
    /\ cinfo' = 0
    /\ csaw' = None
    /\ cret' = <<"True", records[cinfo].id>>
    /\ UNCHANGED <<clock, active_downloads, download_queue, download_history,
                   permits, storage, submitterVars, workerVars, invoked,
                   admitted, swept, fret, terminalOrder, inflight,
                   limiterVars>>

----------------------------------------------------------------------------
(* get_download_history (lines 357-359)                                    *)

\* Python's s[start:]: a negative start counts from the end of the list, and
\* a start outside the list is clipped to it
SliceFrom(s, start) ==
    LET from == IF start < 0
                THEN (IF Len(s) + start < 0 THEN 0 ELSE Len(s) + start)
                ELSE Min(start, Len(s))
    IN  SubSeq(s, from + 1, Len(s))

\* return self.download_history[-limit:]
get_download_history(limit) == SliceFrom(download_history, 0 - limit)

----------------------------------------------------------------------------
(* The specifications                                                      *)

Worker ==
    \/ WorkerGet
    \/ WorkerEnter
    \/ WorkerSetDownloading
    \/ WorkerResetProgress
    \/ WorkerCallBackend
    \/ WorkerFindFile
    \/ WorkerCompletedStatus
    \/ WorkerCompletedProgress
    \/ WorkerCompletedPath
    \/ WorkerCompletedSize
    \/ WorkerCompletedEnd
    \/ WorkerAppendHistory
    \/ WorkerErrorStatus
    \/ WorkerErrorText
    \/ WorkerErrorEnd

Next ==
    \/ \E url \in URLs, dt \in {0, 1} : StartInsert(url, dt, MaxJobs)
    \/ StartPut
    \/ Worker
    \/ \E d \in HookEvents : BackendProgress(d)
    \/ \E out \in BackendOutputs : BackendReturn(out)
    \/ \E msg \in BackendMsgs : BackendRaise(msg)
    \/ \E id \in DOMAIN active_downloads : CancelCheck(id)
    \/ \E id \in DOMAIN active_downloads \cup {UnknownId} : CancelRefuse(id)
    \/ CancelSetStatus
    \/ CancelSetEnd

Spec == Init /\ [][Next]_vars

\* The pool scenario: jobs for different URLs are submitted one after the
\* other at one reading of the clock, the backend reports no progress, and
\* nobody cancels.
NextPool ==
    \/ StartInsert(PoolURL(Len(records) + 1), 0, PoolJobs)
    \/ StartPut
    \/ Worker
    \/ \E out \in BackendOutputs : BackendReturn(out)
    \/ \E msg \in BackendMsgs : BackendRaise(msg)

SpecPool == Init /\ [][NextPool]_vars

\* The cancel scenario: jobs for different URLs at one reading of the clock,
\* no progress callbacks, and cancel_download calls at any moment.
NextCancel ==
    \/ StartInsert(PoolURL(Len(records) + 1), 0, CancelJobs)
    \/ StartPut
    \/ Worker
    \/ \E out \in BackendOutputs : BackendReturn(out)
    \/ \E msg \in BackendMsgs : BackendRaise(msg)
    \/ \E id \in DOMAIN active_downloads : CancelCheck(id)
    \/ \E id \in DOMAIN active_downloads \cup {UnknownId} : CancelRefuse(id)
    \/ CancelSetStatus
    \/ CancelSetEnd

SpecCancel == Init /\ [][NextCancel]_vars

\* The ordering scenario: as the cancel scenario, with cancel_download called
\* for known ids only.
NextOrder ==
    \/ StartInsert(PoolURL(Len(records) + 1), 0, OrderJobs)
    \/ StartPut
    \/ Worker
    \/ \E out \in BackendOutputs : BackendReturn(out)
    \/ \E msg \in BackendMsgs : BackendRaise(msg)
    \/ \E id \in DOMAIN active_downloads : CancelCheck(id)
    \/ CancelSetStatus
    \/ CancelSetEnd

SpecOrder == Init /\ [][NextOrder]_vars

\* The cleanup scenario: jobs for one URL, so that two calls at one reading
\* of the clock get one id, time passing, and cleanup_old_files calls at any
\* moment.
NextSweep ==
    \/ StartInsert(1, 0, SweepJobs)
    \/ StartPut
    \/ Worker
    \/ \E out \in BackendOutputs : BackendReturn(out)
    \/ \E msg \in BackendMsgs : BackendRaise(msg)
    \/ Tick(MaxClock)
    \/ \E max_age_hours \in 0 .. MaxAge : cleanup_old_files(max_age_hours)

SpecSweep == Init /\ [][NextSweep]_vars

\* The retrieval scenario: jobs for different URLs that run, fail or are
\* cancelled, cleanup calls with max_age_hours -1 (the route passes the
\* number of the request on as it is), which remove the file of every history
\* entry that has ended by now, and requests for the file of any id at any
\* moment.
NextFile ==
    \/ StartInsert(PoolURL(Len(records) + 1), 0, FileJobs)
    \/ StartPut
    \/ Worker
    \/ \E out \in BackendOutputs : BackendReturn(out)
    \/ \E msg \in BackendMsgs : BackendRaise(msg)
    \/ \E id \in DOMAIN active_downloads : CancelCheck(id)
    \/ CancelSetStatus
    \/ CancelSetEnd
    \/ cleanup_old_files(-1)
    \/ \E id \in DOMAIN active_downloads \cup {UnknownId} : download_file(id)

SpecFile == Init /\ [][NextFile]_vars

\* The rate limiter: up to MaxRequests requests of one client, handled by
\* the threads of the server (app.run serves each request in a thread of its
\* own), and time passing.
NextRate ==
    \/ \E t \in RequestThreads : RateArrive(t)
    \/ \E t \in RequestThreads : RateClean(t)
    \/ \E t \in RequestThreads : RateCheck(t)
    \/ \E t \in RequestThreads : RateAppend(t)
    \/ Tick(MaxRateClock)

SpecRate == Init /\ [][NextRate]_vars

\* The failure scenario: jobs for different URLs, each backend call returning
\* or raising.  The worker thread keeps running (it is the only thread of its
\* loop and is never joined), a start_download call that has stored its record
\* goes on to queue it, and a backend call ends: by returning or by raising.
NextLive ==
    \/ StartInsert(PoolURL(Len(records) + 1), 0, LiveJobs)
    \/ StartPut
    \/ Worker
    \/ \E out \in BackendOutputs : BackendReturn(out)
    \/ \E msg \in BackendMsgs : BackendRaise(msg)

BackendEnds ==
    \/ \E out \in BackendOutputs : BackendReturn(out)
    \/ \E msg \in BackendMsgs : BackendRaise(msg)

SpecLive ==
    /\ Init
    /\ [][NextLive]_vars
    /\ WF_vars(Worker)
    /\ WF_vars(StartPut)
    /\ WF_vars(BackendEnds)

\* The draining scenario: jobs for different URLs, backend calls that
\* return or raise, cancel_download calls at any moment.  As under SpecLive
\* the worker thread keeps running, a start_download call goes on to queue
\* its id and a backend call ends; a cancel_download call that has passed its
\* test goes on to its writes.
NextDrain ==
    \/ StartInsert(PoolURL(Len(records) + 1), 0, DrainJobs)
    \/ StartPut
    \/ Worker
    \/ \E out \in BackendOutputs : BackendReturn(out)
    \/ \E msg \in BackendMsgs : BackendRaise(msg)
    \/ \E id \in DOMAIN active_downloads : CancelCheck(id)
    \/ CancelSetStatus
    \/ CancelSetEnd

SpecDrain ==
    /\ Init
    /\ [][NextDrain]_vars
    /\ WF_vars(Worker)
    /\ WF_vars(StartPut)
    /\ WF_vars(BackendEnds)
    /\ WF_vars(CancelSetStatus \/ CancelSetEnd)

----------------------------------------------------------------------------
(* Properties                                                              *)

Objects == DOMAIN records

Terminal == {"completed", "error", "cancelled"}

\* the dicts a poller can read: get_download_status, get_all_downloads
Stored == {records[active_downloads[id]] : id \in DOMAIN active_downloads}

\* the status changes of the job state machine
LegalChange(from, to) ==
    \/ from = to
    \/ from = "queued" /\ to \in {"downloading", "cancelled"}
    \/ from = "downloading" /\ to \in Terminal

\* C1: the status of every job record changes only along queued ->
\* downloading -> {completed, error, cancelled} or queued -> cancelled; a
\* terminal status never changes again.
C1_StatusTransitions ==
    [][\A i \in Objects : LegalChange(records[i].status, records'[i].status)]_vars

\* C2: once cancel_download has returned True for a job that was still queued,
\* the backend is never invoked for the job and its status stays cancelled.
C2_QueuedCancelSkipsBackend ==
    \A i \in Objects :
        cancelAck[i] = "queued" =>
            invoked[i] = 0 /\ records[i].status = "cancelled"

\* the worker is not processing dict i
WorkerDoneWith(i) == winfo # i

\* C3: once cancel_download has returned True for a running job, the status
\* the worker leaves behind is cancelled, whatever the backend call did.
C3_RunningCancelWins ==
    \A i \in Objects :
        cancelAck[i] = "running" /\ WorkerDoneWith(i) =>
            records[i].status = "cancelled"

Running == {i \in Objects : records[i].status = "downloading"}

Queued == {i \in Objects : records[i].status = "queued"}

\* C4: at most max_concurrent_downloads job records are running at a time.
C4_AtMostNRunning == Cardinality(Running) <= max_concurrent_downloads

C4_Witness ==
    /\ Len(records) > max_concurrent_downloads
    /\ Len(download_queue) >= max_concurrent_downloads
    /\ wpc = "backend"
    /\ Cardinality(Running) = 1

\* N + 1 jobs are submitted, none of their backend calls has returned or
\* raised, and neither start_download nor the worker can take a step: all
\* that can happen next is a backend call returning or raising
PoolBlocked ==
    /\ Len(records) = max_concurrent_downloads + 1
    /\ \A i \in Objects : records[i].status \in {"queued", "downloading"}
    /\ wpc = "backend"
    /\ ~ ENABLED (StartPut \/ Worker)

\* C5: with N + 1 = 6 jobs submitted and every backend call blocking, the
\* pool comes to rest with 5 jobs running and 1 queued.
C5_PoolRunsFive ==
    PoolBlocked =>
        /\ Cardinality(Running) = max_concurrent_downloads
        /\ Cardinality(Queued) = 1

\* the position of the start_download call that returned id
SubmissionIndex(id) == CHOOSE i \in Objects : records[i].id = id

\* C6: jobs become running in the order of their submission: of two jobs
\* that have become running, the one submitted first became running first.
\* (Under SpecPool every start_download call returns an id of its own, so an
\* id names one submission.)
C6_FifoAdmission ==
    \A a, b \in DOMAIN admitted :
        a < b => SubmissionIndex(admitted[a]) < SubmissionIndex(admitted[b])

C6_Witness ==
    /\ Len(admitted) >= 3
    /\ download_queue # <<>>

\* C7: a record a poller reads with status completed has progress 100, a
\* file_path and a file_size above 0.
C7_CompletedIsWhole ==
    \A r \in Stored :
        r.status = "completed" =>
            r.progress = 100 /\ r.file_path # None /\ r.file_size > 0

\* C8: a record has a file_path if and only if its status is completed.
C8_ArtifactIffCompleted ==
    \A i \in Objects :
        records[i].file_path # None <=> records[i].status = "completed"

\* C9: a record has an error text if and only if its status is error, and a
\* record with status error has no file_path and a non-empty error text.
C9_ErrorIffStatusError ==
    \A i \in Objects :
        /\ records[i].error # None <=> records[i].status = "error"
        /\ records[i].status = "error" =>
               records[i].file_path = None /\ records[i].error # ""

\* C10: while a job is running, its progress never decreases.
C10_ProgressMonotone ==
    [][\A i \in Objects :
           records[i].status = "downloading" /\ records'[i].status = "downloading"
               => records'[i].progress >= records[i].progress]_vars

\* the number of entries of the history ledger made for download id
HistoryCount(id) ==
    Cardinality({k \in DOMAIN download_history : download_history[k].id = id})

\* C11: every record that has reached a terminal status, once the call that
\* wrote the status is over, has exactly one snapshot in download_history.
C11_TerminalInHistoryOnce ==
    \A i \in Objects :
        /\ records[i].status \in Terminal
        /\ winfo # i /\ cinfo # i
        /\ ~ (spc = "put" /\ sid = records[i].id)
        =>
            HistoryCount(records[i].id) = 1

\* C13: no record and no queue entry exists for a URL that _validate_url
\* rejects: such a submission fails.
C13_InvalidUrlRejected ==
    /\ \A i \in Objects : _validate_url(records[i].url)
    /\ \A k \in DOMAIN download_queue : _validate_url(download_queue[k][1])

\* C14: while start_download is about to put its id on the queue the record
\* is in the store with status queued and progress 0 and the put cannot
\* block; every id on the queue, or taken off it by the worker, has a record
\* in the store.
C14_StoredBeforeQueued ==
    /\ spc = "put" =>
           /\ sid \in DOMAIN active_downloads
           /\ records[active_downloads[sid]].status = "queued"
           /\ records[active_downloads[sid]].progress = 0
           /\ ENABLED StartPut
    /\ \A k \in DOMAIN download_queue :
           download_queue[k] \in DOMAIN active_downloads
    /\ wpc # "get" => wid \in DOMAIN active_downloads

C14_Witness ==
    /\ spc = "put"
    /\ download_queue # <<>>
    /\ wpc = "backend"

\* C15: no two start_download calls return the same id.
C15_UniqueIds ==
    \A i, j \in Objects : i # j => records[i].id # records[j].id

\* largest limit asked of get_download_history
MaxLimit == 2

\* C16: get_download_history(limit) returns the last min(limit, length)
\* entries of the ledger, never more than limit, for every limit from 0 on.
C16_HistoryAtMostLimit ==
    \A limit \in 0 .. MaxLimit :
        LET n == Len(download_history)
            m == Min(limit, n)
        IN  /\ Len(get_download_history(limit)) <= limit
            /\ get_download_history(limit) = SubSeq(download_history, n - m + 1, n)

\* a job directory without a file, or with an empty first file
BadOutput(dir) == dir = <<>> \/ dir[1] = 0

\* the positions of the worker on the completion path (lines 331-341)
CompletionPath == {"c_status", "c_progress", "c_path", "c_size", "c_end", "c_hist"}

\* C17: a backend call that leaves no file or an empty file never takes the
\* worker onto the completion path; the job ends with status error and an
\* error text, and no history entry with status completed is made for it.
C17_BadOutputIsError ==
    /\ wpc \in CompletionPath => ~ BadOutput(storage[wid])
    /\ \A i \in Objects :
           /\ invoked[i] > 0
           /\ winfo # i
           /\ BadOutput(storage[records[i].id])
           => /\ records[i].status = "error"
              /\ records[i].error # None
              /\ \A k \in DOMAIN download_history :
                     download_history[k].id = records[i].id
                         => download_history[k].status # "completed"

C17_Witness ==
    \E i \in Objects :
        /\ invoked[i] > 0
        /\ winfo # i
        /\ storage[records[i].id] = <<0>>
        /\ records[i].status = "error"
        /\ records[i].error = EmptyFileMsg

\* The test cancel_download makes of its argument, stated on the store.
Cancellable(id) ==
    /\ id \in DOMAIN active_downloads
    /\ records[active_downloads[id]].status \in {"queued", "downloading"}

\* C12: cancel_download returns True only for a call that found its argument
\* stored with status queued or downloading, and such a call sets the
\* record's status to cancelled and stamps its end_time before it returns;
\* it returns False only for a call that found the argument unknown or in
\* another status, and that call changes no record, nor the store, the queue
\* or the history.
C12_CancelContract ==
    [][ /\ cpc = "idle" /\ cpc' = "status" =>
               \E id \in DOMAIN active_downloads :
                   /\ Cancellable(id)
                   /\ cinfo' = active_downloads[id]
        /\ cpc = "status" /\ cpc' # "status" =>
               records'[cinfo].status = "cancelled"
        /\ cret' # cret /\ cret' # <<>> /\ cret'[1] = "True" =>
               /\ cpc = "end"
               /\ csaw \in {"queued", "downloading"}
               /\ cret'[2] = records[cinfo].id
               /\ records'[cinfo].end_time = clock
               /\ records'[cinfo].end_time # NoTime
        /\ cret' # cret /\ cret' # <<>> /\ cret'[1] = "False" =>
               /\ ~ Cancellable(cret'[2])
               /\ UNCHANGED <<records, active_downloads, download_queue,
                              download_history, storage>>
      ]_vars

C12_Witness ==
    /\ cret # <<>> /\ cret[1] = "False"
    /\ cret[2] \in DOMAIN active_downloads
    /\ records[active_downloads[cret[2]]].status = "cancelled"
    /\ records[active_downloads[cret[2]]].end_time # NoTime

ErrorPath == {"e_status", "e_error", "e_end"}

\* a job has failed: the worker has left the except branch for it
Failed(i) == records[i].status = "error" /\ invoked[i] > 0 /\ winfo # i

\* the worker has taken the job off the queue and is through with it
Processed(i) == records[i].status \in {"completed", "error"} /\ winfo # i

\* a step of the except branch changes the failed job's record and no other
\* record, nor the store, the queue, the history or the files
ErrorStepFrame ==
    wpc \in ErrorPath /\ wpc' # wpc =>
        /\ winfo \in Objects
        /\ \A i \in Objects \ {winfo} : records'[i] = records[i]
        /\ Len(records') = Len(records)
        /\ UNCHANGED <<active_downloads, download_queue, download_history,
                       storage>>
        /\ wpc' \in ErrorPath \cup {"get"}

\* C18: a failed job neither ends the worker thread nor keeps its permit:
\* whenever the worker is back at the head of its loop all permits are free,
\* the steps of the except branch change the failed job's record and nothing
\* else (no other record, nor the store, the queue or the history), and once
\* a job has failed every job in the queue, then or later, is eventually
\* taken off it and processed.
C18_FailureIsContained ==
    /\ [](wpc \in {"get", "enter"} => permits = max_concurrent_downloads)
    /\ [][ErrorStepFrame]_vars
    /\ \A k \in 1 .. LiveJobs :
           (/\ \E j \in Objects : Failed(j)
            /\ k \in Objects
            /\ records[k].id \in Range(download_queue))
               ~> (k \in Objects /\ Processed(k))

C18_Witness ==
    /\ wpc = "get" /\ permits = max_concurrent_downloads
    /\ \E j, k \in Objects :
           /\ j < k
           /\ Failed(j) /\ records[j].error \in BackendMsgs
           /\ records[k].status = "completed" /\ winfo # k

\* the entry ended before the cutoff
Old(entry, cutoff_time) == entry.end_time # NoTime /\ entry.end_time < cutoff_time

\* C19: for every cutoff, a second cleanup_old_files run right after a first
\* leaves the files as the first run left them and raises nothing although
\* the files the first run removed are missing; and a run changes neither the
\* history nor the records and the store.
C19_CleanupIdempotent ==
    /\ [](\A max_age_hours \in 0 .. MaxAge :
             LET cutoff_time == clock - max_age_hours
                 first == SweepFrom(storage, download_history, 1, cutoff_time)
                 second == SweepFrom(first.files, download_history, 1, cutoff_time)
             IN  /\ ~ first.raised
                 /\ ~ second.raised
                 /\ second.files = first.files)
    /\ [][swept' # swept =>
              UNCHANGED <<download_history, records, active_downloads>>]_vars

C19_Witness ==
    /\ swept # <<>>
    /\ storage = SweepFrom(storage, download_history, 1, swept[1]).files
    /\ \E j, k \in DOMAIN download_history :
           /\ download_history[j].id # download_history[k].id
           /\ Old(download_history[j], swept[1])
           /\ ~ PathExists(storage, download_history[j].id)
           /\ ~ Old(download_history[k], swept[1])
           /\ PathExists(storage, download_history[k].id)

\* C20: a cleanup_old_files run changes nothing but files: the history, the
\* records, the store and the queue stay as they are, a file that changes is
\* removed and is the file of a history entry that ended before the cutoff,
\* and the file of every history entry that ended at or after the cutoff is
\* left as it is.
C20_CleanupFrame ==
    [][swept' # swept =>
          /\ UNCHANGED <<download_history, records, active_downloads,
                         download_queue>>
          /\ DOMAIN storage' = DOMAIN storage
          /\ \A id \in DOMAIN storage :
                 storage'[id] # storage[id] =>
                     /\ storage'[id] = <<>>
                     /\ \E k \in DOMAIN download_history :
                            /\ download_history[k].id = id
                            /\ Old(download_history[k], swept'[1])
          /\ \A k \in DOMAIN download_history :
                 ~ Old(download_history[k], swept'[1]) =>
                     storage'[download_history[k].id] =
                         storage[download_history[k].id]]_vars

\* what a download_file response must be, given the state it was computed in
FileResponseFrame ==
    fret' # fret =>
        LET code == fret'[1]
            id == fret'[2]
            known == id \in DOMAIN active_downloads
            rec == records[active_downloads[id]]
        IN  /\ UNCHANGED <<records, active_downloads, download_queue,
                           download_history, storage>>
            /\ code \in {200, 400, 404}
            /\ code = 200 =>
                   /\ known
                   /\ rec.status = "completed"
                   /\ PathExists(storage, id)
            /\ ~ known => code = 404
            /\ known /\ rec.status # "completed" => code = 400
            /\ known /\ rec.status = "completed" /\ ~ PathExists(storage, id)
                   => code = 404

\* C21: download_file sends the file (200) only for a stored job whose status
\* is completed and whose file exists; it answers 404 for an unknown id, 400
\* for a stored job in any other status and 404 for a completed job whose
\* file is gone; and it changes no record, nor the store, the queue, the
\* history or the files.
C21_ArtifactOnlyWhenReady == [][FileResponseFrame]_vars

C21_Witness ==
    /\ fret # <<>> /\ fret[1] = 404
    /\ fret[2] \in DOMAIN active_downloads
    /\ records[active_downloads[fret[2]]].status = "completed"
    /\ records[active_downloads[fret[2]]].file_path # None
    /\ ~ PathExists(storage, fret[2])
    /\ swept # <<>>

\* a progress callback has run: the worker stays inside the backend call and
\* the progress of a dict changes
HookStepBelow100 ==
    \A i \in Objects :
        wpc = "backend" /\ wpc' = wpc /\ records'[i].progress # records[i].progress
            => records'[i].progress <= 99

\* C22: no progress callback sets a record's progress to 100; a callback
\* leaves it at 99 or less, whatever dict the backend passes, the 'finished'
\* one included.
C22_HookNeverSets100 == [][HookStepBelow100]_vars

\* C23: no two entries of download_history carry the same download id.
C23_OneHistoryEntryPerId ==
    \A j, k \in DOMAIN download_history :
        j # k => download_history[j].id # download_history[k].id

\* the place of dict i among the first arrivals at a terminal status
Rank(i) == CHOOSE r \in DOMAIN terminalOrder : terminalOrder[r] = i

\* C24: the entries of download_history are in the order in which their jobs
\* became terminal: of two entries, the job of the earlier one reached a
\* terminal status (completed, error or cancelled) first.
C24_HistoryInTerminalOrder ==
    \A j, k \in DOMAIN download_history :
        j < k =>
            LET a == active_downloads[download_history[j].id]
                b == active_downloads[download_history[k].id]
            IN  /\ a \in Range(terminalOrder)
                /\ b \in Range(terminalOrder)
                /\ Rank(a) < Rank(b)

\* C25: no download id has two _process_download calls in flight: the calls
\* that have begun and not returned are for different ids (also when the
\* same id is on the queue twice), and the dict a call writes is the dict of
\* the one call the worker thread is inside.
C25_OneInvocationPerId ==
    /\ \A j, k \in DOMAIN inflight : j # k => inflight[j] # inflight[k]
    /\ winfo # 0 => wid \in Range(inflight)

C25_Witness ==
    /\ wpc = "backend"
    /\ inflight = <<wid>>
    /\ wid \in Range(download_queue)

\* the requests served with a time in the RATE_WINDOW seconds that end at T
ServedIn(T) ==
    {k \in DOMAIN served : served[k] <= T /\ T - served[k] < RATE_WINDOW}

\* a request is answered 429: the list and the handler are left alone
RejectFrame ==
    \A t \in RequestThreads :
        rpc[t] = "check" /\ rpc'[t] = "idle" =>
            /\ request_counts' = request_counts
            /\ served' = served

\* C26: in every window of RATE_WINDOW seconds at most RATE_LIMIT requests
\* of the client reach the wrapped handler, whatever the interleaving of the
\* request threads; and a request answered 429 is neither recorded nor
\* handled.
C26_AtMostLimitPerWindow ==
    /\ [](\A k \in DOMAIN served :
             Cardinality(ServedIn(served[k])) <= RATE_LIMIT)
    /\ [][RejectFrame]_vars

\* nothing is left to do: the queue is empty, the worker waits for an id and
\* every stored job has a terminal status
Drained ==
    /\ download_queue = <<>>
    /\ wpc = "get"
    /\ \A i \in Objects : records[i].status \in Terminal

WholeSnapshot(entry) ==
    /\ entry.status = "completed"
    /\ entry.progress = 100
    /\ entry.file_path # None
    /\ entry.file_size > 0
    /\ entry.end_time # NoTime

\* the entries download_history has are left as they are
HistoryKept ==
    /\ Len(download_history') >= Len(download_history)
    /\ \A k \in DOMAIN download_history :
           download_history'[k] = download_history[k]

\* C28: every entry of download_history has status completed, progress 100,
\* a file_path, a file_size above 0 and an end_time, whatever cancel_download
\* does between the worker's completion writes; and an entry never changes
\* once it is in the list.
C28_HistoryEntriesWhole ==
    /\ [](\A k \in DOMAIN download_history : WholeSnapshot(download_history[k]))
    /\ [][HistoryKept]_vars


====
